---- MODULE Spec2Model ----
(***************************************************************************)
(* Registries of the browser module (browser/registry.go):                 *)
(*   pidRegistry     the launched browser process ids (RWMutex + slice)    *)
(*   remoteRegistry  the remote WS URLs and the draw among them            *)
(*   tracesRegistry  one root span and its context per iteration (Mutex)   *)
(*   browserRegistry one browser per iteration (sync.Map), driven by the   *)
(*                   iteration-event loop and the exit-event loop          *)
(* Each registry has a specification of its own (SpecPid, SpecTrace,       *)
(* SpecBrowser, and FairSpecBrowser with the exit loop scheduled fairly);  *)
(* the variables of the other registries stay as Init left them.           *)
(* SpecRemote and SpecTraceNew run the constructors newRemoteRegistry and  *)
(* newTracesRegistry on the environments listed with them; strings that    *)
(* are parsed are sequences of characters. SpecBrowserAny is SpecBrowser   *)
(* under a producer that may start an identity again before its end, and   *)
(* SpecBrowserRecorded is SpecBrowser with the overlaps of handler and      *)
(* drain recorded. SpecKeys runs the keyed calls of the trace map and of    *)
(* the browser map directly.                                                *)
(* The two event loops are not part of registry.go: they follow the        *)
(* design document, with each handler's work on one map entry (look up and *)
(* remove, then Close) taken as one step.                                  *)
(***************************************************************************)
EXTENDS Integers, Sequences, FiniteSets, TLC

VARIABLES
    \* ---- pidRegistry
    ids,        \* pidRegistry.ids: the slice of registered pids
    mu,         \* pidRegistry.mu: [writer |-> goroutine or 0, readers |-> count]
    regPc,      \* position of each registering goroutine in registerPid
    regPid,     \* the pid argument of each registering goroutine
    regTmp,     \* the slice each goroutine read from r.ids inside append
    rdPc,       \* position of the reading goroutine in Pids
    pids,       \* the copy last returned by Pids (empty before the first call)
    \* ---- tracesRegistry
    tr,         \* the constructed registry: [ctx |-> r.ctx, tp |-> r.tp]
    traceM,     \* tracesRegistry.m: iteration id -> [ctx, rootSpan]
    traceMu,    \* tracesRegistry.mu: the goroutine holding it, or 0
    spans,      \* every span started: [parent, iter, ended (calls of End)]
    tPc,        \* position of each goroutine in traceCtx / endTrace
    tOp,        \* the operation each goroutine runs
    tId,        \* its id argument
    tLoc,       \* its local t (the rootSpan of the entry it found, or 0)
    tRes,       \* what its last completed call was and returned
    lastOp,     \* the last call that left the registry's critical section
    \* ---- remoteRegistry
    remote,     \* [isRemote |-> r.isRemote, wsURLs |-> r.wsURLs]
    \* ---- browserRegistry and its two event loops
    regM,       \* browserRegistry.m: iteration id -> browser
    browsers,   \* every browser built: [iter, wsURL, pid, ev (the event that built
                \* it), stored, closed (calls of Close), by]
    events,     \* the iteration events emitted so far, in delivery order
    acks,       \* calls of Done per iteration event
    exitEv,     \* the exit event: "none", "emitted" or "received"
    exitAcks,   \* calls of Done on the exit event
    iterPc,     \* position of the iteration-event loop
    iterCur,    \* the event it handles (index into events; 0 before the first)
    iterWs,     \* what isRemoteBrowser returned to the builder: [wsURL, ok]
    iterB,      \* the browser the builder returned (0: none)
    aborted,    \* the events whose handling reported an abort
    exitPc,     \* position of the exit-event loop
    exitSeen,   \* the keys the drain has visited
    atExit,     \* the browsers registered when the exit event was received
    overlapped, \* the iteration events whose handler ran while the drain ran
    \* ---- construction of the remote registry and of the traces registry
    envWs,      \* what envLookup gives for K6_BROWSER_WS_URL: [ok, val]
    envSc,      \* what envLookup gives for K6_INSTANCE_SCENARIOS: [ok, val]
    rrPc,       \* "new" before newRemoteRegistry has run, "returned" after
    rr,         \* what newRemoteRegistry returned: [err, r (<<>>: nil, or <<registry>>)]
    drawn,      \* what the last isRemoteBrowser call returned: [called, wsURL, ok]
    tenv,       \* what envLookup gives for the four tracing variables
    tnPc,       \* "new" before newTracesRegistry has run, "returned" after
    tnew        \* what newTracesRegistry returned: [err, r (<<>>: nil, or <<registry>>)]

pidVars == <<ids, mu, regPc, regPid, regTmp, rdPc, pids>>

pidRest == <<mu, regPc, regPid, regTmp, rdPc, pids>>

traceVars == <<tr, traceM, traceMu, spans, tPc, tOp, tId, tLoc, tRes, lastOp>>

browserVars == <<remote, regM, browsers, events, acks, exitEv, exitAcks, iterPc,
                 iterCur, iterWs, iterB, aborted, exitPc, exitSeen, atExit,
                 overlapped>>

confVars == <<envWs, envSc, rrPc, rr, drawn, tenv, tnPc, tnew>>

vars == <<pidVars, traceVars, browserVars, confVars>>

\* ------------------------------------------------------------------ bounds
NumRegs == 3        \* goroutines calling registerPid, one call each
MaxPid == 3         \* process ids are drawn from 1..MaxPid

NumTracers == 2     \* goroutines calling traceCtx and endTrace
NumIters == 2       \* iteration ids are 1..NumIters
MaxSpans == 2       \* spans started in one run
MaxEvents == 3      \* iteration events emitted in one run

MaxWsLen == 4       \* the length of the K6_BROWSER_WS_URL values tried

Regs == 1..NumRegs
PidSet == 1..MaxPid
Tracers == 1..NumTracers
IterIds == 1..NumIters

\* ------------------------------------------------------------- helpers
Range(s) == {s[i] : i \in 1..Len(s)}

NoRepeat(s) == \A i, j \in 1..Len(s) : i # j => s[i] # s[j]

IsPrefix(s, t) == Len(s) <= Len(t) /\ \A i \in 1..Len(s) : s[i] = t[i]

\* =================================================================
\* pidRegistry
\* =================================================================

\* Faulty variant of CanLock: Lock never waits.
CanLockLost(m) == TRUE

\* sync.RWMutex: Lock needs no writer and no reader, RLock needs no writer.
CanLock(m) == m.writer = 0 /\ m.readers = 0

CanRLock(m) == m.writer = 0

\* Faulty variant of appendPid: pid is put in front.
appendPidFront(slice, pid) == <<pid>> \o slice

\* r.ids = append(r.ids, pid): the slice read by append, with pid after it.
appendPid(slice, pid) == Append(slice, pid)

\* Faulty variant of copyPids: make without copy, the slice holds zeros.
copyPidsZero(slice) == [i \in 1..Len(slice) |-> 0]

\* pids := make([]int, len(r.ids)); copy(pids, r.ids)
copyPids(slice) == [i \in 1..Len(slice) |-> slice[i]]

InitPid ==
    /\ ids = <<>>
    /\ mu = [writer |-> 0, readers |-> 0]
    /\ regPc = [g \in Regs |-> "idle"]
    /\ regPid = [g \in Regs |-> 0]
    /\ regTmp = [g \in Regs |-> <<>>]
    /\ rdPc = "idle"
    /\ pids = <<>>

\* registerPid(pid): r.mu.Lock()
registerPidLock(g) ==
    /\ regPc[g] = "idle"
    /\ CanLock(mu)
    /\ \E pid \in PidSet : regPid' = [regPid EXCEPT ![g] = pid]
    /\ mu' = [mu EXCEPT !.writer = g]
    /\ regPc' = [regPc EXCEPT ![g] = "locked"]
    /\ UNCHANGED <<ids, regTmp, rdPc, pids,
                   traceVars, browserVars, confVars>>

\* append reads r.ids ...
registerPidRead(g) ==
    /\ regPc[g] = "locked"
    /\ regTmp' = [regTmp EXCEPT ![g] = ids]
    /\ regPc' = [regPc EXCEPT ![g] = "read"]
    /\ UNCHANGED <<ids, mu, regPid, rdPc, pids,
                   traceVars, browserVars, confVars>>

\* ... and the result is assigned to r.ids
registerPidWrite(g) ==
    /\ regPc[g] = "read"
    /\ ids' = appendPid(regTmp[g], regPid[g])
    /\ regPc' = [regPc EXCEPT ![g] = "written"]
    /\ UNCHANGED <<mu, regPid, regTmp, rdPc, pids,
                   traceVars, browserVars, confVars>>

\* defer r.mu.Unlock(); the call returns
registerPidUnlock(g) ==
    /\ regPc[g] = "written"
    /\ mu' = [mu EXCEPT !.writer = IF mu.writer = g THEN 0 ELSE mu.writer]
    /\ regPc' = [regPc EXCEPT ![g] = "done"]
    /\ UNCHANGED <<ids, regPid, regTmp, rdPc, pids,
                   traceVars, browserVars, confVars>>

\* Pids(): r.mu.RLock()
PidsRLock ==
    /\ rdPc = "idle"
    /\ CanRLock(mu)
    /\ mu' = [mu EXCEPT !.readers = mu.readers + 1]
    /\ rdPc' = "rlocked"
    /\ UNCHANGED <<ids, regPc, regPid, regTmp, pids,
                   traceVars, browserVars, confVars>>

\* make + copy, defer r.mu.RUnlock(), return pids
PidsCopy ==
    /\ rdPc = "rlocked"
    /\ pids' = copyPids(ids)
    /\ mu' = [mu EXCEPT !.readers = mu.readers - 1]
    /\ rdPc' = "idle"
    /\ UNCHANGED <<ids, regPc, regPid, regTmp,
                   traceVars, browserVars, confVars>>

\* =================================================================
\* tracesRegistry
\* =================================================================

\* An environment variable as env.LookupFunc gives it: (value, ok).
Unset == [ok |-> FALSE, val |-> ""]

SetTo(v) == [ok |-> TRUE, val |-> v]

\* strconv.ParseBool: (value, err).
ParseBool(str) ==
    IF str \in {"1", "t", "T", "TRUE", "true", "True"}
    THEN [v |-> TRUE, err |-> FALSE]
    ELSE IF str \in {"0", "f", "F", "FALSE", "false", "False"}
         THEN [v |-> FALSE, err |-> FALSE]
         ELSE [v |-> FALSE, err |-> TRUE]

\* strings.ToLower on the protocol names the model uses.
ToLower(str) ==
    IF str \in {"http", "HTTP", "Http"} THEN "http"
    ELSE IF str \in {"grpc", "GRPC"} THEN "grpc"
    ELSE str

\* Faulty variant of isTracingEnabled: any value that is set enables tracing.
isTracingEnabledSet(env) == env.enabled.ok

isTracingEnabled(env) ==
    IF ~env.enabled.ok
    THEN FALSE
    ELSE ~ParseBool(env.enabled.val).err /\ ParseBool(env.enabled.val).v

parseTracingConfig(env) ==
    [endpoint |-> env.endpoint.val,
     proto    |-> env.proto.val,
     insecure |-> ParseBool(env.insecure.val).v]

\* Faulty variant of newClient: a client for every protocol.
newClientAny(proto) == [err |-> "", client |-> ToLower(proto)]

\* otel.newClient: only "http" (in any case) gives a client.
newClient(proto) ==
    IF ToLower(proto) = "http" THEN [err |-> "", client |-> "http"]
    ELSE [err |-> "unsupported protocol", client |-> ""]

\* otel.NewTraceProvider; exporter is what otlptrace.New gives for the client
\* ("ok", or "failed").
NewTraceProvider(proto, exporter) ==
    IF newClient(proto).err # ""
    THEN [err |-> "creating exporter client", tp |-> "none"]
    ELSE IF exporter = "failed"
         THEN [err |-> "creating exporter", tp |-> "none"]
         ELSE [err |-> "", tp |-> "otlp"]

\* newTracesRegistry(ctx, envLookup): (r, err); r is << >> for nil. The
\* registry built with tracing enabled is given no ctx field: it keeps the zero
\* value, nil.
newTracesRegistry(ctx, env, exporter) ==
    IF ~isTracingEnabled(env)
    THEN [err |-> "", r |-> <<[ctx |-> ctx, tp |-> "noop", m |-> << >>]>>]
    ELSE IF parseTracingConfig(env).endpoint = "" \/ parseTracingConfig(env).proto = ""
         THEN [err |-> "tracing is enabled but endpoint or proto were not set",
               r   |-> << >>]
         ELSE IF NewTraceProvider(parseTracingConfig(env).proto, exporter).err # ""
              THEN [err |-> "creating trace provider", r |-> << >>]
              ELSE [err |-> "", r |-> <<[ctx |-> "nil", tp |-> "otlp", m |-> << >>]>>]

\* The environments the trace registry is run under.
TraceRunEnvs ==
    {[enabled |-> Unset, endpoint |-> Unset, proto |-> Unset, insecure |-> Unset],
     [enabled |-> SetTo("true"), endpoint |-> SetTo("localhost:4318"),
      proto |-> SetTo("http"), insecure |-> SetTo("true")]}

\* The environments newTracesRegistry is tried with.
TraceEnvs ==
    [enabled  : {Unset, SetTo(""), SetTo("true"), SetTo("1"), SetTo("false"), SetTo("yes")},
     endpoint : {Unset, SetTo(""), SetTo("localhost:4318")},
     proto    : {Unset, SetTo(""), SetTo("http"), SetTo("HTTP"), SetTo("grpc")},
     insecure : {Unset, SetTo("true"), SetTo("maybe")}]

InitTraceNewIdle ==
    /\ tenv = [enabled |-> Unset, endpoint |-> Unset, proto |-> Unset, insecure |-> Unset]
    /\ tnPc = "new"
    /\ tnew = [err |-> "", r |-> << >>]

InitTraceNew ==
    /\ tenv \in TraceEnvs
    /\ tnPc = "new"
    /\ tnew = [err |-> "", r |-> << >>]

\* r, err := newTracesRegistry(ctx, envLookup)
NewTracesRegistry ==
    /\ tnPc = "new"
    /\ \E exporter \in {"ok", "failed"} : tnew' = newTracesRegistry("base", tenv, exporter)
    /\ tnPc' = "returned"
    /\ UNCHANGED <<tenv, envWs, envSc, rrPc, rr, drawn,
                   pidVars, traceVars, browserVars>>

\* Faulty variant of mutexFree: Lock never waits.
mutexFreeAlways(holder) == TRUE

\* sync.Mutex: Lock succeeds when nobody holds it.
mutexFree(holder) == holder = 0

\* otel.Trace(ctx, "IterStart"): a new span started from ctx, and the context
\* that wraps it. The span is the next index of spans.
otelTraceSpan(all, ctx, id) == Append(all, [parent |-> ctx, iter |-> id, ended |-> 0])

otelTraceCtx(all, ctx) == [parent |-> ctx, span |-> Len(all) + 1]

\* Faulty variant of storeTrace: the span started is not stored.
storeTraceDropped(m, id, spanCtx) == m

\* r.m[id] = &trace{ctx: spanCtx, rootSpan: span}
storeTrace(m, id, spanCtx) ==
    [x \in DOMAIN m \cup {id} |->
        IF x = id THEN [ctx |-> spanCtx, rootSpan |-> spanCtx.span] ELSE m[x]]

\* t.rootSpan.End()
spanEnd(all, s) == [all EXCEPT ![s].ended = @ + 1]

\* Faulty variant of deleteTrace: the entry stays.
deleteTraceKept(m, id) == m

\* delete(r.m, id)
deleteTrace(m, id) == [x \in DOMAIN m \ {id} |-> m[x]]

NoCtx == [parent |-> "none", span |-> 0]

InitTraceIdle ==
    /\ tr = [ctx |-> "nil", tp |-> "none"]
    /\ traceM = << >>
    /\ traceMu = 0
    /\ spans = << >>
    /\ tPc = [g \in Tracers |-> "idle"]
    /\ tOp = [g \in Tracers |-> "none"]
    /\ tId = [g \in Tracers |-> 0]
    /\ tLoc = [g \in Tracers |-> 0]
    /\ tRes = [g \in Tracers |-> [op |-> "none", id |-> 0, ctx |-> NoCtx]]
    /\ lastOp = [op |-> "none", id |-> 0]

InitTrace ==
    /\ \E env \in TraceRunEnvs :
          /\ newTracesRegistry("base", env, "ok").err = ""
          /\ tr = [ctx |-> newTracesRegistry("base", env, "ok").r[1].ctx,
                   tp  |-> newTracesRegistry("base", env, "ok").r[1].tp]
          /\ traceM = newTracesRegistry("base", env, "ok").r[1].m
    /\ traceMu = 0
    /\ spans = << >>
    /\ tPc = [g \in Tracers |-> "idle"]
    /\ tOp = [g \in Tracers |-> "none"]
    /\ tId = [g \in Tracers |-> 0]
    /\ tLoc = [g \in Tracers |-> 0]
    /\ tRes = [g \in Tracers |-> [op |-> "none", id |-> 0, ctx |-> NoCtx]]
    /\ lastOp = [op |-> "none", id |-> 0]

\* traceCtx(id) / endTrace(id): r.mu.Lock()
traceLock(g) ==
    /\ tPc[g] = "idle"
    /\ mutexFree(traceMu)
    /\ \E op \in {"traceCtx", "endTrace"}, id \in IterIds :
          /\ op = "traceCtx" => Len(spans) < MaxSpans
          /\ tOp' = [tOp EXCEPT ![g] = op]
          /\ tId' = [tId EXCEPT ![g] = id]
    /\ traceMu' = g
    /\ tPc' = [tPc EXCEPT ![g] = "locked"]
    /\ UNCHANGED <<tr, traceM, spans, tLoc, tRes, lastOp,
                   pidVars, browserVars, confVars>>

\* traceCtx: if t, ok := r.m[id]; ok { return t.ctx }
traceCtxLookup(g) ==
    /\ tPc[g] = "locked"
    /\ tOp[g] = "traceCtx"
    /\ IF tId[g] \in DOMAIN traceM
       THEN /\ tRes' = [tRes EXCEPT ![g] =
                   [op |-> "traceCtx", id |-> tId[g], ctx |-> traceM[tId[g]].ctx]]
            /\ tPc' = [tPc EXCEPT ![g] = "unlock"]
       ELSE /\ tPc' = [tPc EXCEPT ![g] = "start"]
            /\ UNCHANGED tRes
    /\ UNCHANGED <<tr, traceM, traceMu, spans, tOp, tId, tLoc, lastOp,
                   pidVars, browserVars, confVars>>

\* traceCtx: spanCtx, span := otel.Trace(r.ctx, "IterStart"); r.m[id] = ...;
\* return spanCtx
traceCtxStart(g) ==
    /\ tPc[g] = "start"
    /\ spans' = otelTraceSpan(spans, tr.ctx, tId[g])
    /\ traceM' = storeTrace(traceM, tId[g], otelTraceCtx(spans, tr.ctx))
    /\ tRes' = [tRes EXCEPT ![g] =
            [op |-> "traceCtx", id |-> tId[g], ctx |-> otelTraceCtx(spans, tr.ctx)]]
    /\ tPc' = [tPc EXCEPT ![g] = "unlock"]
    /\ UNCHANGED <<tr, traceMu, tOp, tId, tLoc, lastOp,
                   pidVars, browserVars, confVars>>

\* endTrace: if t, ok := r.m[id]; ok {
endTraceLookup(g) ==
    /\ tPc[g] = "locked"
    /\ tOp[g] = "endTrace"
    /\ IF tId[g] \in DOMAIN traceM
       THEN /\ tLoc' = [tLoc EXCEPT ![g] = traceM[tId[g]].rootSpan]
            /\ tPc' = [tPc EXCEPT ![g] = "end"]
            /\ UNCHANGED tRes
       ELSE /\ tRes' = [tRes EXCEPT ![g] =
                   [op |-> "endTrace", id |-> tId[g], ctx |-> NoCtx]]
            /\ tPc' = [tPc EXCEPT ![g] = "unlock"]
            /\ UNCHANGED tLoc
    /\ UNCHANGED <<tr, traceM, traceMu, spans, tOp, tId, lastOp,
                   pidVars, browserVars, confVars>>

\* endTrace: t.rootSpan.End(); delete(r.m, id) }
endTraceEnd(g) ==
    /\ tPc[g] = "end"
    /\ spans' = spanEnd(spans, tLoc[g])
    /\ traceM' = deleteTrace(traceM, tId[g])
    /\ tRes' = [tRes EXCEPT ![g] = [op |-> "endTrace", id |-> tId[g], ctx |-> NoCtx]]
    /\ tPc' = [tPc EXCEPT ![g] = "unlock"]
    /\ UNCHANGED <<tr, traceMu, tOp, tId, tLoc, lastOp,
                   pidVars, browserVars, confVars>>

\* defer r.mu.Unlock(); the call returns
traceUnlock(g) ==
    /\ tPc[g] = "unlock"
    /\ traceMu' = IF traceMu = g THEN 0 ELSE traceMu
    /\ lastOp' = [op |-> tOp[g], id |-> tId[g]]
    /\ tPc' = [tPc EXCEPT ![g] = "idle"]
    /\ tOp' = [tOp EXCEPT ![g] = "none"]
    /\ tId' = [tId EXCEPT ![g] = 0]
    /\ tLoc' = [tLoc EXCEPT ![g] = 0]
    /\ UNCHANGED <<tr, traceM, spans, tRes,
                   pidVars, browserVars, confVars>>

\* =================================================================
\* remoteRegistry
\* =================================================================

\* ---- strings, as sequences of characters

\* The characters of the K6_BROWSER_WS_URL values the model tries.
WsChars == {"A", "B", ","}

Strings(chars, n) == UNION {[1..k -> chars] : k \in 0..n}

\* envLookup of a variable that is not set: ("", false).
Absent == [ok |-> FALSE, val |-> << >>]

\* strings.ContainsRune(s, c)
ContainsRune(s, c) == \E i \in 1..Len(s) : s[i] = c

\* strings.IndexRune(s, c), for an s that contains c
IndexRune(s, c) == CHOOSE i \in 1..Len(s) : s[i] = c /\ \A j \in 1..(i - 1) : s[j] # c

\* strings.Split(s, sep) with a one-character sep: the parts between the
\* separators, empty parts included; an s without sep gives the one part s.
RECURSIVE Split(_, _)
Split(s, c) ==
    IF ~ContainsRune(s, c)
    THEN <<s>>
    ELSE <<SubSeq(s, 1, IndexRune(s, c) - 1)>>
            \o Split(SubSeq(s, IndexRune(s, c) + 1, Len(s)), c)

\* strings.TrimSpace(s): s without its leading and trailing white space.
RECURSIVE TrimSpace(_)
TrimSpace(s) ==
    IF Len(s) = 0 THEN s
    ELSE IF s[1] = " " THEN TrimSpace(Tail(s))
    ELSE IF s[Len(s)] = " " THEN TrimSpace(SubSeq(s, 1, Len(s) - 1))
    ELSE s

\* ---- checkForBrowserWSURLs

\* Faulty variant of dropLastVoid: the void last part stays.
dropLastVoidKept(parts) == parts

\* Faulty variant of dropLastVoid: every void part goes.
dropLastVoidEvery(parts) == SelectSeq(parts, LAMBDA part : part # << >>)

\* if parts[len(parts)-1] == "" { parts = parts[:len(parts)-1] }
dropLastVoid(parts) ==
    IF parts[Len(parts)] = << >> THEN SubSeq(parts, 1, Len(parts) - 1) ELSE parts

\* checkForBrowserWSURLs(envLookup): (isRemote, wsURLs), ws being what
\* envLookup(env.WebSocketURLs) gives.
checkForBrowserWSURLs(ws) ==
    IF ~ws.ok
    THEN [isRemote |-> FALSE, wsURLs |-> << >>]
    ELSE IF ~ContainsRune(ws.val, ",")
         THEN [isRemote |-> TRUE, wsURLs |-> <<ws.val>>]
         ELSE [isRemote |-> TRUE, wsURLs |-> dropLastVoid(Split(ws.val, ","))]

\* ---- checkForScenarios
\* A value of K6_INSTANCE_SCENARIOS is a text, either bare or written as a
\* quoted Go string: [quoted, text]. A text is [kind, scenarios]: the empty
\* text, a JSON text cut short ("truncated"), the JSON null, a JSON object,
\* or a JSON array of scenario objects, each the sequence of its browser
\* objects [has (the object has a "handle" member), handle].
EmptyText == [kind |-> "empty", scenarios |-> << >>]

Bare(text) == [quoted |-> FALSE, text |-> text]

Quoted(text) == [quoted |-> TRUE, text |-> text]

JsonArray(scenarios) == [kind |-> "array", scenarios |-> scenarios]

Handle(h) == [has |-> TRUE, handle |-> h]

NoHandle == [has |-> FALSE, handle |-> << >>]

\* envLookup of K6_INSTANCE_SCENARIOS when it is not set: ("", false).
AbsentScenarios == [ok |-> FALSE, val |-> Bare(EmptyText)]

\* Faulty variant of isVoid: the void string is not told apart.
isVoidNever(v) == FALSE

\* scenariosJSON == ""
isVoid(v) == ~v.quoted /\ v.text.kind = "empty"

\* strconv.Unquote(scenariosJSON): (text, err); only a quoted string unquotes.
Unquote(v) ==
    IF v.quoted THEN [err |-> FALSE, text |-> v.text] ELSE [err |-> TRUE, text |-> EmptyText]

\* Faulty variant of Unmarshal: a text that does not decode gives no scenario
\* and no error.
UnmarshalSwallowed(text) ==
    [err |-> FALSE,
     scenarios |-> IF text.kind = "array"
                   THEN [i \in 1..Len(text.scenarios) |->
                            [j \in 1..Len(text.scenarios[i]) |->
                                IF text.scenarios[i][j].has
                                THEN text.scenarios[i][j].handle ELSE << >>]]
                   ELSE << >>]

\* json.Unmarshal into []struct{ID; Browsers []struct{Handle}}: (scenarios, err).
\* An array decodes (a browser object without "handle" has Handle ""), null
\* decodes to no scenario, every other text is an error.
decodeBrowser(b) == IF b.has THEN b.handle ELSE << >>

Unmarshal(text) ==
    IF text.kind = "array"
    THEN [err |-> FALSE,
          scenarios |-> [i \in 1..Len(text.scenarios) |->
                            [j \in 1..Len(text.scenarios[i]) |->
                                decodeBrowser(text.scenarios[i][j])]]]
    ELSE IF text.kind = "null"
         THEN [err |-> FALSE, scenarios |-> << >>]
         ELSE [err |-> TRUE, scenarios |-> << >>]

\* Faulty variant of keepHandle: blank handles are kept too.
keepHandleAll(h) == TRUE

\* if strings.TrimSpace(b.Handle) == "" { continue }
keepHandle(h) == TrimSpace(h) # << >>

\* for _, b := range s.Browsers { ...; wsURLs = append(wsURLs, b.Handle) }
RECURSIVE collectBrowsers(_, _)
collectBrowsers(wsURLs, bs) ==
    IF bs = << >> THEN wsURLs
    ELSE collectBrowsers(IF keepHandle(Head(bs)) THEN Append(wsURLs, Head(bs)) ELSE wsURLs,
                         Tail(bs))

\* for _, s := range scenarios { ... }
RECURSIVE collectScenarios(_, _)
collectScenarios(wsURLs, ss) ==
    IF ss = << >> THEN wsURLs
    ELSE collectScenarios(collectBrowsers(wsURLs, Head(ss)), Tail(ss))

\* checkForScenarios(envLookup): (isRemote, wsURLs, err), sc being what
\* envLookup(env.InstanceScenarios) gives.
checkForScenarios(sc) ==
    IF ~sc.ok
    THEN [isRemote |-> FALSE, wsURLs |-> << >>, err |-> ""]
    ELSE IF isVoid(sc.val)
    THEN [isRemote |-> FALSE, wsURLs |-> << >>, err |-> ""]
    ELSE IF Unquote(sc.val).err
    THEN [isRemote |-> FALSE, wsURLs |-> << >>, err |-> "unqouting K6_INSTANCE_SCENARIOS"]
    ELSE IF Unmarshal(Unquote(sc.val).text).err
    THEN [isRemote |-> FALSE, wsURLs |-> << >>, err |-> "parsing K6_INSTANCE_SCENARIOS"]
    ELSE [isRemote |-> Len(collectScenarios(<< >>, Unmarshal(Unquote(sc.val).text).scenarios)) # 0,
          wsURLs   |-> collectScenarios(<< >>, Unmarshal(Unquote(sc.val).text).scenarios),
          err      |-> ""]

\* ---- newRemoteRegistry

\* Faulty variant of scenariosWin: the simple list is read all the same.
scenariosWinNever(cs) == FALSE

\* if isRemote { r.isRemote = isRemote; r.wsURLs = wsURLs; return r, nil }
scenariosWin(cs) == cs.isRemote

\* newRemoteRegistry(envLookup): (r, err); r is << >> for nil.
newRemoteRegistry(sc, ws) ==
    IF checkForScenarios(sc).err # ""
    THEN [err |-> checkForScenarios(sc).err, r |-> << >>]
    ELSE IF scenariosWin(checkForScenarios(sc))
         THEN [err |-> "",
               r   |-> <<[isRemote |-> TRUE, wsURLs |-> checkForScenarios(sc).wsURLs]>>]
         ELSE [err |-> "", r |-> <<checkForBrowserWSURLs(ws)>>]

\* rand.Int(rand.Reader, big.NewInt(len(r.wsURLs))): the indexes it can give.
drawRange(r) == 1..Len(r.wsURLs)

\* Faulty variant of isRemoteBrowser: never remote.
isRemoteBrowserNever(r, i) == [wsURL |-> "", ok |-> FALSE]

\* isRemoteBrowser() with the index drawn: (wsURL, ok).
isRemoteBrowser(r, i) ==
    IF ~r.isRemote
    THEN [wsURL |-> "", ok |-> FALSE]
    ELSE [wsURL |-> r.wsURLs[i], ok |-> TRUE]

\* ---- the construction of a remote registry and the calls on it

\* The values of K6_BROWSER_WS_URL tried: not set, and every string of at most
\* MaxWsLen characters.
WsValues == {Absent} \cup {SetTo(str) : str \in Strings(WsChars, MaxWsLen)}

\* The texts of K6_INSTANCE_SCENARIOS tried.
ScenarioTexts ==
    {EmptyText,
     [kind |-> "truncated", scenarios |-> << >>],
     [kind |-> "object", scenarios |-> << >>],
     [kind |-> "null", scenarios |-> << >>],
     JsonArray(<< >>),
     JsonArray(<< << >> >>),
     JsonArray(<< <<NoHandle>> >>),
     JsonArray(<< <<Handle(<< >>)>>, <<Handle(<<" ">>), NoHandle>> >>),
     JsonArray(<< <<Handle(<<"A">>)>> >>),
     JsonArray(<< <<Handle(<<"C">>), Handle(<<"A">>)>> >>),
     JsonArray(<< <<Handle(<<"B">>), Handle(<<"A">>)>>, <<Handle(<<"C">>), Handle(<<"B">>)>> >>),
     JsonArray(<< <<Handle(<<" ">>), Handle(<<" ", "B">>), NoHandle>>, << >>, <<Handle(<<"A">>)>> >>)}

\* The values of K6_INSTANCE_SCENARIOS tried: not set, the void string, a
\* JSON array that is not written as a quoted string, and each text quoted.
ScValues ==
    {AbsentScenarios, SetTo(Bare(EmptyText)),
     SetTo(Bare(JsonArray(<< <<Handle(<<"A">>)>> >>)))}
        \cup {SetTo(Quoted(text)) : text \in ScenarioTexts}

NotDrawn == [called |-> FALSE, wsURL |-> "", ok |-> FALSE]

NotReturned == [err |-> "", r |-> << >>]

InitRemoteIdle ==
    /\ envWs = Absent
    /\ envSc = AbsentScenarios
    /\ rrPc = "new"
    /\ rr = NotReturned
    /\ drawn = NotDrawn

InitRemote ==
    /\ envWs \in WsValues
    /\ envSc \in ScValues
    /\ rrPc = "new"
    /\ rr = NotReturned
    /\ drawn = NotDrawn

\* rr, err := newRemoteRegistry(lookup)
NewRemoteRegistry ==
    /\ rrPc = "new"
    /\ rr' = newRemoteRegistry(envSc, envWs)
    /\ rrPc' = "returned"
    /\ UNCHANGED <<envWs, envSc, drawn, tenv, tnPc, tnew,
                   pidVars, traceVars, browserVars>>

\* wsURL, isRemote := rr.isRemoteBrowser(), on a registry that was returned
IsRemoteBrowser ==
    /\ rrPc = "returned"
    /\ rr.r # << >>
    /\ IF rr.r[1].isRemote
       THEN \E i \in drawRange(rr.r[1]) :
                drawn' = [called |-> TRUE,
                          wsURL  |-> isRemoteBrowser(rr.r[1], i).wsURL,
                          ok     |-> isRemoteBrowser(rr.r[1], i).ok]
       ELSE drawn' = [called |-> TRUE,
                      wsURL  |-> isRemoteBrowser(rr.r[1], 0).wsURL,
                      ok     |-> isRemoteBrowser(rr.r[1], 0).ok]
    /\ UNCHANGED <<envWs, envSc, rrPc, rr, tenv, tnPc, tnew,
                   pidVars, traceVars, browserVars>>

\* The remote registries the browser registry is run with: no remote browser,
\* and a list of two WS URLs.
RunRemotes ==
    {[isRemote |-> FALSE, wsURLs |-> << >>],
     [isRemote |-> TRUE, wsURLs |-> <<"ws://a", "ws://b">>]}

\* =================================================================
\* browserRegistry
\* =================================================================

\* Faulty variant of setBrowser: an identity already mapped keeps its browser.
setBrowserKeepsFirst(m, id, b) ==
    [x \in DOMAIN m \cup {id} |-> IF x \in DOMAIN m THEN m[x] ELSE b]

\* p.m.Store(id, b)
setBrowser(m, id, b) == [x \in DOMAIN m \cup {id} |-> IF x = id THEN b ELSE m[x]]

\* p.m.Load(id): (b, ok)
getBrowser(m, id) ==
    IF id \in DOMAIN m THEN [b |-> m[id], ok |-> TRUE] ELSE [b |-> 0, ok |-> FALSE]

\* Faulty variants of deleteBrowser: the entry stays; every entry goes.
deleteBrowserKept(m, id) == m

deleteBrowserAll(m, id) == << >>

\* p.m.Delete(id)
deleteBrowser(m, id) == [x \in DOMAIN m \ {id} |-> m[x]]

\* api.Browser.Close(), called by the end handler ("end") or the drain ("exit")
closeBrowser(all, b, who) ==
    [all EXCEPT ![b].closed = @ + 1, ![b].by = @ \cup {who}]

\* The browsers the map holds.
Registered(m) == {m[k] : k \in DOMAIN m}

\* The type of the last event emitted for iteration id ("none" if none was).
LastFor(evs, id) ==
    LET at == {i \in 1..Len(evs) : evs[i].iter = id}
    IN  IF at = {} THEN "none"
        ELSE evs[CHOOSE i \in at : \A j \in at : j <= i].type

InitBrowserIdle ==
    /\ remote = [isRemote |-> FALSE, wsURLs |-> << >>]
    /\ regM = << >>
    /\ browsers = << >>
    /\ events = << >>
    /\ acks = [e \in 1..MaxEvents |-> 0]
    /\ exitEv = "none"
    /\ exitAcks = 0
    /\ iterPc = "recv"
    /\ iterCur = 0
    /\ iterWs = [wsURL |-> "", ok |-> FALSE]
    /\ iterB = 0
    /\ aborted = {}
    /\ exitPc = "wait"
    /\ exitSeen = {}
    /\ atExit = {}
    /\ overlapped = {}

InitBrowser ==
    /\ remote \in RunRemotes
    /\ regM = << >>
    /\ browsers = << >>
    /\ events = << >>
    /\ acks = [e \in 1..MaxEvents |-> 0]
    /\ exitEv = "none"
    /\ exitAcks = 0
    /\ iterPc = "recv"
    /\ iterCur = 0
    /\ iterWs = [wsURL |-> "", ok |-> FALSE]
    /\ iterB = 0
    /\ aborted = {}
    /\ exitPc = "wait"
    /\ exitSeen = {}
    /\ atExit = {}
    /\ overlapped = {}

\* ---- the event producer (the execution engine)

\* An iteration-start event: for one iteration identity start precedes end.
EmitIterStart(id) ==
    /\ Len(events) < MaxEvents
    /\ LastFor(events, id) # "IterStart"
    /\ events' = Append(events, [type |-> "IterStart", iter |-> id])
    /\ UNCHANGED <<remote, regM, browsers, acks, exitEv, exitAcks, iterPc, iterCur,
                   iterWs, iterB, aborted, exitPc, exitSeen, atExit, ids,
                   overlapped, pidRest, traceVars, confVars>>

EmitIterEnd(id) ==
    /\ Len(events) < MaxEvents
    /\ LastFor(events, id) = "IterStart"
    /\ events' = Append(events, [type |-> "IterEnd", iter |-> id])
    /\ UNCHANGED <<remote, regM, browsers, acks, exitEv, exitAcks, iterPc, iterCur,
                   iterWs, iterB, aborted, exitPc, exitSeen, atExit, ids,
                   overlapped, pidRest, traceVars, confVars>>

\* A producer that does not keep to the order: a second start for an identity
\* whose last event was a start.
EmitIterStartAgain(id) ==
    /\ Len(events) < MaxEvents
    /\ LastFor(events, id) = "IterStart"
    /\ events' = Append(events, [type |-> "IterStart", iter |-> id])
    /\ UNCHANGED <<remote, regM, browsers, acks, exitEv, exitAcks, iterPc, iterCur,
                   iterWs, iterB, aborted, exitPc, exitSeen, atExit, ids,
                   overlapped, pidRest, traceVars, confVars>>

\* An event whose payload has an unexpected shape (it carries no identity).
EmitMalformed ==
    /\ Len(events) < MaxEvents
    /\ events' = Append(events, [type |-> "malformed", iter |-> 0])
    /\ UNCHANGED <<remote, regM, browsers, acks, exitEv, exitAcks, iterPc, iterCur,
                   iterWs, iterB, aborted, exitPc, exitSeen, atExit, ids,
                   overlapped, pidRest, traceVars, confVars>>

\* The single exit event.
EmitExit ==
    /\ exitEv = "none"
    /\ exitEv' = "emitted"
    /\ UNCHANGED <<remote, regM, browsers, events, acks, exitAcks, iterPc, iterCur,
                   iterWs, iterB, aborted, exitPc, exitSeen, atExit, ids,
                   overlapped, pidRest, traceVars, confVars>>

\* ---- the iteration-event loop

\* Faulty variant of IterRecv: the next event is taken while the build of the
\* current one is still running.
IterRecvEarly ==
    /\ iterPc \in {"recv", "building"}
    /\ iterCur < Len(events)
    /\ iterCur' = iterCur + 1
    /\ iterPc' = "handle"
    /\ UNCHANGED <<remote, regM, browsers, events, acks, exitEv, exitAcks,
                   iterWs, iterB, aborted, exitPc, exitSeen, atExit, ids,
                   overlapped, pidRest, traceVars, confVars>>

\* for e := range eventsCh: the next event in delivery order
IterRecv ==
    /\ iterPc = "recv"
    /\ iterCur < Len(events)
    /\ iterCur' = iterCur + 1
    /\ iterPc' = "handle"
    /\ UNCHANGED <<remote, regM, browsers, events, acks, exitEv, exitAcks,
                   iterWs, iterB, aborted, exitPc, exitSeen, atExit, ids,
                   overlapped, pidRest, traceVars, confVars>>

\* IterRecv, with the overlap of the handler and the drain recorded: the
\* handler begins while the drain runs.
IterRecvRecorded ==
    /\ iterPc = "recv"
    /\ iterCur < Len(events)
    /\ iterCur' = iterCur + 1
    /\ iterPc' = "handle"
    /\ overlapped' = IF exitPc = "drain" THEN overlapped \cup {iterCur + 1} ELSE overlapped
    /\ UNCHANGED <<remote, regM, browsers, events, acks, exitEv, exitAcks,
                   iterWs, iterB, aborted, exitPc, exitSeen, atExit, ids,
                   pidRest, traceVars, confVars>>

\* a payload of an unexpected shape: abort
IterMalformed ==
    /\ iterPc = "handle"
    /\ events[iterCur].type = "malformed"
    /\ aborted' = aborted \cup {iterCur}
    /\ iterPc' = "ack"
    /\ UNCHANGED <<remote, regM, browsers, events, acks, exitEv, exitAcks, iterCur,
                   iterWs, iterB, exitPc, exitSeen, atExit, ids,
                   overlapped, pidRest, traceVars, confVars>>

\* iteration start: the builder is invoked; it asks the remote registry first
IterBuildBegin ==
    /\ iterPc = "handle"
    /\ events[iterCur].type = "IterStart"
    /\ IF remote.isRemote
       THEN \E i \in drawRange(remote) : iterWs' = isRemoteBrowser(remote, i)
       ELSE iterWs' = isRemoteBrowser(remote, 0)
    /\ iterPc' = "building"
    /\ UNCHANGED <<remote, regM, browsers, events, acks, exitEv, exitAcks, iterCur,
                   iterB, aborted, exitPc, exitSeen, atExit, ids,
                   overlapped, pidRest, traceVars, confVars>>

\* the builder succeeds: connected to wsURL, or launched locally and the pid
\* of the new process registered
IterBuildOk ==
    /\ iterPc = "building"
    /\ browsers' = Append(browsers,
            [iter |-> events[iterCur].iter, wsURL |-> iterWs.wsURL,
             pid |-> IF iterWs.ok THEN 0 ELSE Len(browsers) + 1,
             ev |-> iterCur, stored |-> FALSE, closed |-> 0, by |-> {}])
    /\ ids' = IF iterWs.ok THEN ids ELSE appendPid(ids, Len(browsers) + 1)
    /\ iterB' = Len(browsers) + 1
    /\ iterPc' = "built"
    /\ UNCHANGED <<remote, regM, events, acks, exitEv, exitAcks, iterCur,
                   iterWs, aborted, exitPc, exitSeen, atExit,
                   overlapped, pidRest, traceVars, confVars>>

\* Faulty variant of IterBuildFail: the nil browser is stored all the same.
IterBuildFailStores ==
    /\ iterPc = "building"
    /\ aborted' = aborted \cup {iterCur}
    /\ regM' = setBrowser(regM, events[iterCur].iter, 0)
    /\ iterB' = 0
    /\ iterPc' = "ack"
    /\ UNCHANGED <<remote, browsers, events, acks, exitEv, exitAcks, iterCur,
                   iterWs, exitPc, exitSeen, atExit, ids,
                   overlapped, pidRest, traceVars, confVars>>

\* Faulty variant of IterBuildFail: on to the next event without Done.
IterBuildFailNoAck ==
    /\ iterPc = "building"
    /\ aborted' = aborted \cup {iterCur}
    /\ iterB' = 0
    /\ iterPc' = "recv"
    /\ UNCHANGED <<remote, regM, browsers, events, acks, exitEv, exitAcks, iterCur,
                   iterWs, exitPc, exitSeen, atExit, ids,
                   overlapped, pidRest, traceVars, confVars>>

\* the builder fails (connect or launch error): the iteration is aborted
IterBuildFail ==
    /\ iterPc = "building"
    /\ aborted' = aborted \cup {iterCur}
    /\ iterB' = 0
    /\ iterPc' = "ack"
    /\ UNCHANGED <<remote, regM, browsers, events, acks, exitEv, exitAcks, iterCur,
                   iterWs, exitPc, exitSeen, atExit, ids,
                   overlapped, pidRest, traceVars, confVars>>

\* setBrowser(id, b)
IterStore ==
    /\ iterPc = "built"
    /\ regM' = setBrowser(regM, events[iterCur].iter, iterB)
    /\ browsers' = [browsers EXCEPT ![iterB].stored = TRUE]
    /\ iterPc' = "ack"
    /\ UNCHANGED <<remote, events, acks, exitEv, exitAcks, iterCur,
                   iterWs, iterB, aborted, exitPc, exitSeen, atExit, ids,
                   overlapped, pidRest, traceVars, confVars>>

\* iteration end: look up and remove the browser of the identity; close it if
\* there was one
IterEnd ==
    /\ iterPc = "handle"
    /\ events[iterCur].type = "IterEnd"
    /\ regM' = deleteBrowser(regM, events[iterCur].iter)
    /\ browsers' = IF getBrowser(regM, events[iterCur].iter).ok
                   THEN closeBrowser(browsers, getBrowser(regM, events[iterCur].iter).b, "end")
                   ELSE browsers
    /\ iterPc' = "ack"
    /\ UNCHANGED <<remote, events, acks, exitEv, exitAcks, iterCur,
                   iterWs, iterB, aborted, exitPc, exitSeen, atExit, ids,
                   overlapped, pidRest, traceVars, confVars>>

\* e.Done(); b and the drawn URL go out of scope
IterAck ==
    /\ iterPc = "ack"
    /\ acks' = [acks EXCEPT ![iterCur] = @ + 1]
    /\ iterPc' = "recv"
    /\ iterWs' = [wsURL |-> "", ok |-> FALSE]
    /\ iterB' = 0
    /\ UNCHANGED <<remote, regM, browsers, events, exitEv, exitAcks, iterCur,
                   aborted, exitPc, exitSeen, atExit, ids,
                   overlapped, pidRest, traceVars, confVars>>

\* ---- the exit-event loop

\* e, ok := <-exitCh
ExitRecv ==
    /\ exitPc = "wait"
    /\ exitEv = "emitted"
    /\ exitEv' = "received"
    /\ exitPc' = "drain"
    /\ atExit' = Registered(regM)
    /\ exitSeen' = {}
    /\ UNCHANGED <<remote, regM, browsers, events, acks, exitAcks, iterPc, iterCur,
                   iterWs, iterB, aborted, ids,
                   overlapped, pidRest, traceVars, confVars>>

\* ExitRecv, with the overlap of the handler and the drain recorded: the
\* drain begins while a handler runs.
ExitRecvRecorded ==
    /\ exitPc = "wait"
    /\ exitEv = "emitted"
    /\ exitEv' = "received"
    /\ exitPc' = "drain"
    /\ atExit' = Registered(regM)
    /\ exitSeen' = {}
    /\ overlapped' = IF iterPc # "recv" THEN overlapped \cup {iterCur} ELSE overlapped
    /\ UNCHANGED <<remote, regM, browsers, events, acks, exitAcks, iterPc, iterCur,
                   iterWs, iterB, aborted, ids,
                   pidRest, traceVars, confVars>>

\* the drain visits key k (each key at most once): remove and close
ExitDrainOne(k) ==
    /\ exitPc = "drain"
    /\ k \in DOMAIN regM
    /\ k \notin exitSeen
    /\ regM' = deleteBrowser(regM, k)
    /\ browsers' = closeBrowser(browsers, getBrowser(regM, k).b, "exit")
    /\ exitSeen' = exitSeen \cup {k}
    /\ UNCHANGED <<remote, events, acks, exitEv, exitAcks, iterPc, iterCur,
                   iterWs, iterB, aborted, exitPc, atExit, ids,
                   overlapped, pidRest, traceVars, confVars>>

\* the drain is over: no browser that was registered when it began is left.
\* A key stored while the drain ran may have been missed.
ExitDrainDone ==
    /\ exitPc = "drain"
    /\ Registered(regM) \cap atExit = {}
    /\ exitPc' = "ack"
    /\ UNCHANGED <<remote, regM, browsers, events, acks, exitEv, exitAcks, iterPc, iterCur,
                   iterWs, iterB, aborted, exitSeen, atExit, ids,
                   overlapped, pidRest, traceVars, confVars>>

\* e.Done(); the loop returns
ExitAck ==
    /\ exitPc = "ack"
    /\ exitAcks' = exitAcks + 1
    /\ exitPc' = "done"
    /\ UNCHANGED <<remote, regM, browsers, events, acks, exitEv, iterPc, iterCur,
                   iterWs, iterB, aborted, exitSeen, atExit, ids,
                   overlapped, pidRest, traceVars, confVars>>

ExitLoop ==
    \/ ExitRecv
    \/ \E k \in IterIds : ExitDrainOne(k)
    \/ ExitDrainDone
    \/ ExitAck

\* =================================================================
\* specifications
\* =================================================================
NextPid ==
    \/ \E g \in Regs : registerPidLock(g)
    \/ \E g \in Regs : registerPidRead(g)
    \/ \E g \in Regs : registerPidWrite(g)
    \/ \E g \in Regs : registerPidUnlock(g)
    \/ PidsRLock
    \/ PidsCopy

InitSpecPid == InitPid /\ InitTraceIdle /\ InitBrowserIdle /\ InitRemoteIdle /\ InitTraceNewIdle

SpecPid == InitSpecPid /\ [][NextPid]_vars

NextTrace ==
    \/ \E g \in Tracers : traceLock(g)
    \/ \E g \in Tracers : traceCtxLookup(g)
    \/ \E g \in Tracers : traceCtxStart(g)
    \/ \E g \in Tracers : endTraceLookup(g)
    \/ \E g \in Tracers : endTraceEnd(g)
    \/ \E g \in Tracers : traceUnlock(g)

InitSpecTrace == InitPid /\ InitTrace /\ InitBrowserIdle /\ InitRemoteIdle /\ InitTraceNewIdle

SpecTrace == InitSpecTrace /\ [][NextTrace]_vars

NextBrowser ==
    \/ \E id \in IterIds : EmitIterStart(id)
    \/ \E id \in IterIds : EmitIterEnd(id)
    \/ EmitMalformed
    \/ EmitExit
    \/ IterRecv
    \/ IterMalformed
    \/ IterBuildBegin
    \/ IterBuildOk
    \/ IterBuildFail
    \/ IterStore
    \/ IterEnd
    \/ IterAck
    \/ ExitRecv
    \/ \E k \in IterIds : ExitDrainOne(k)
    \/ ExitDrainDone
    \/ ExitAck

InitSpecBrowser == InitPid /\ InitTraceIdle /\ InitBrowser /\ InitRemoteIdle /\ InitTraceNewIdle

SpecBrowser == InitSpecBrowser /\ [][NextBrowser]_vars

\* The two loops under a producer that may start an identity again before its
\* end.
NextBrowserAny ==
    \/ NextBrowser
    \/ \E id \in IterIds : EmitIterStartAgain(id)

SpecBrowserAny == InitSpecBrowser /\ [][NextBrowserAny]_vars

\* The two loops with the overlaps of handlers and drain recorded.
NextBrowserRecorded ==
    \/ \E id \in IterIds : EmitIterStart(id)
    \/ \E id \in IterIds : EmitIterEnd(id)
    \/ EmitMalformed
    \/ EmitExit
    \/ IterRecvRecorded
    \/ IterMalformed
    \/ IterBuildBegin
    \/ IterBuildOk
    \/ IterBuildFail
    \/ IterStore
    \/ IterEnd
    \/ IterAck
    \/ ExitRecvRecorded
    \/ \E k \in IterIds : ExitDrainOne(k)
    \/ ExitDrainDone
    \/ ExitAck

SpecBrowserRecorded == InitSpecBrowser /\ [][NextBrowserRecorded]_vars

\* ---- the keyed calls of the two maps, made directly
\* No goroutine is inside traceCtx or endTrace, and none will be.
InitTraceOff ==
    /\ tr = [ctx |-> "nil", tp |-> "none"]
    /\ traceM = << >>
    /\ traceMu = 0
    /\ spans = << >>
    /\ tPc = [g \in Tracers |-> "off"]
    /\ tOp = [g \in Tracers |-> "none"]
    /\ tId = [g \in Tracers |-> 0]
    /\ tLoc = [g \in Tracers |-> 0]
    /\ tRes = [g \in Tracers |-> [op |-> "none", id |-> 0, ctx |-> NoCtx]]
    /\ lastOp = [op |-> "none", id |-> 0]

\* One local browser per iteration identity is built and open; the map is
\* empty and no event loop has started.
InitBrowserBuilt ==
    /\ remote = [isRemote |-> FALSE, wsURLs |-> << >>]
    /\ regM = << >>
    /\ browsers = [b \in IterIds |->
                      [iter |-> b, wsURL |-> "", pid |-> b, ev |-> 0,
                       stored |-> FALSE, closed |-> 0, by |-> {}]]
    /\ events = << >>
    /\ acks = [e \in 1..MaxEvents |-> 0]
    /\ exitEv = "none"
    /\ exitAcks = 0
    /\ iterPc = "recv"
    /\ iterCur = 0
    /\ iterWs = [wsURL |-> "", ok |-> FALSE]
    /\ iterB = 0
    /\ aborted = {}
    /\ exitPc = "wait"
    /\ exitSeen = {}
    /\ atExit = {}
    /\ overlapped = {}

\* r.setBrowser(id, b), b a browser that was built
SetBrowserCall(id, b) ==
    /\ b \in DOMAIN browsers
    /\ regM' = setBrowser(regM, id, b)
    /\ browsers' = [browsers EXCEPT ![b].stored = TRUE]
    /\ UNCHANGED <<remote, events, acks, exitEv, exitAcks, iterPc, iterCur,
                   iterWs, iterB, aborted, exitPc, exitSeen, atExit, ids,
                   overlapped, pidRest, traceVars, confVars>>

\* r.deleteBrowser(id)
DeleteBrowserCall(id) ==
    /\ regM' = deleteBrowser(regM, id)
    /\ UNCHANGED <<remote, browsers, events, acks, exitEv, exitAcks, iterPc,
                   iterCur, iterWs, iterB, aborted, exitPc, exitSeen, atExit,
                   ids, overlapped, pidRest, traceVars, confVars>>

NextKeys ==
    \/ NextTrace
    \/ \E id \in IterIds : \E b \in IterIds : SetBrowserCall(id, b)
    \/ \E id \in IterIds : DeleteBrowserCall(id)

\* Either the goroutines of the trace registry run (no browser is built, so
\* the browser map stays empty), or the callers of the browser map do.
InitSpecKeys ==
    \/ InitPid /\ InitTrace /\ InitBrowserIdle /\ InitRemoteIdle /\ InitTraceNewIdle
    \/ InitPid /\ InitTraceOff /\ InitBrowserBuilt /\ InitRemoteIdle /\ InitTraceNewIdle

SpecKeys == InitSpecKeys /\ [][NextKeys]_vars

\* The exit loop's goroutine is scheduled whenever it can take a step; nothing
\* is assumed of the producer or of the iteration loop (a build may hang).
FairSpecBrowser ==
    /\ SpecBrowser
    /\ WF_vars(ExitLoop)

\* The construction of a remote registry from the two variables, and the
\* isRemoteBrowser calls on the registry it returned.
NextRemote ==
    \/ NewRemoteRegistry
    \/ IsRemoteBrowser

InitSpecRemote == InitPid /\ InitTraceIdle /\ InitBrowserIdle /\ InitRemote /\ InitTraceNewIdle

SpecRemote == InitSpecRemote /\ [][NextRemote]_vars

\* The construction of a traces registry from the four tracing variables.
NextTraceNew == NewTracesRegistry

InitSpecTraceNew == InitPid /\ InitTraceIdle /\ InitBrowserIdle /\ InitRemoteIdle /\ InitTraceNew

SpecTraceNew == InitSpecTraceNew /\ [][NextTraceNew]_vars

\* =================================================================
\* claims about the pid registry (SpecPid)
\* =================================================================

\* ---- C10: once N concurrent registerPid calls with N distinct process ids
\* have all returned, the list Pids() copies holds exactly those N ids: every
\* registered id once, and no other id.
AllRegistered == \A g \in Regs : regPc[g] = "done"

DistinctPids == \A g, h \in Regs : g # h => regPid[g] # regPid[h]

C10_ExactlyRegistered ==
    (AllRegistered /\ DistinctPids) =>
        /\ Len(copyPids(ids)) = NumRegs
        /\ Range(copyPids(ids)) = {regPid[g] : g \in Regs}
        /\ NoRepeat(copyPids(ids))
        /\ Len(pids) = NumRegs => pids = ids

C10_Witness ==
    /\ AllRegistered
    /\ DistinctPids
    /\ Len(pids) = NumRegs
    /\ \E i \in 1..(NumRegs - 1) : ids[i] > ids[i + 1]

\* ---- C11: the list only grows at its end: every step leaves it as it is or
\* appends the pid of the registerPid call that takes effect, behind all the
\* ids registered before (an id registered twice is there twice: one entry per
\* call that took effect); and Pids() returns the list in that order.
TookEffect == {g \in Regs : regPc[g] \in {"written", "done"}}

C11_AppendOnlyInOrder ==
    /\ [][\/ ids' = ids
          \/ \E g \in Regs : /\ regPc[g] = "read"
                               /\ regPc'[g] = "written"
                               /\ ids' = Append(ids, regPid[g])]_vars
    /\ [][(rdPc = "rlocked" /\ rdPc' = "idle") => pids' = ids]_vars
    /\ [](Len(ids) = Cardinality(TookEffect))

C11_Witness ==
    /\ AllRegistered
    /\ Len(pids) = NumRegs
    /\ pids[1] = pids[2]
    /\ regPid[1] # regPid[2]

\* ---- C12: a snapshot Pids() returned is a prefix of the list at every later
\* time, also when registerPid calls run between and after; and no step other
\* than the return of a Pids() call changes a snapshot.
C12_SnapshotIsStablePrefix ==
    /\ [](IsPrefix(pids, ids))
    /\ [][~(rdPc = "rlocked" /\ rdPc' = "idle") => pids' = pids]_vars

C12_Witness ==
    /\ Len(pids) >= 1
    /\ Len(ids) > Len(pids)
    /\ \E g \in Regs : regPc[g] = "locked"
    /\ rdPc = "idle"

\* =================================================================
\* claims about the remote registry (SpecRemote)
\* =================================================================

\* The parts written one after the other with a comma between two of them.
RECURSIVE Join(_)
Join(parts) ==
    IF Len(parts) = 0 THEN << >>
    ELSE IF Len(parts) = 1 THEN parts[1]
    ELSE parts[1] \o <<",">> \o Join(Tail(parts))

EndsWithComma(str) == Len(str) > 0 /\ str[Len(str)] = ","

\* r is what the simple form asks for the value ws of K6_BROWSER_WS_URL.
IsSimpleForm(ws, r) ==
    /\ ~ws.ok => r = [isRemote |-> FALSE, wsURLs |-> << >>]
    /\ (ws.ok /\ \A i \in 1..Len(ws.val) : ws.val[i] # ",") =>
            r = [isRemote |-> TRUE, wsURLs |-> <<ws.val>>]
    /\ (ws.ok /\ \E i \in 1..Len(ws.val) : ws.val[i] = ",") =>
            /\ r.isRemote
            /\ Len(r.wsURLs) >= 1
            /\ \A k \in 1..Len(r.wsURLs) :
                  \A i \in 1..Len(r.wsURLs[k]) : r.wsURLs[k][i] # ","
            /\ IF EndsWithComma(ws.val)
               THEN Join(r.wsURLs) \o <<",">> = ws.val
               ELSE Join(r.wsURLs) = ws.val

\* The registry newRemoteRegistry returned (when it returned one).
Returned == rrPc = "returned" /\ Len(rr.r) = 1

\* ---- C13: with K6_INSTANCE_SCENARIOS not set, newRemoteRegistry returns the
\* registry of the simple form for every value of K6_BROWSER_WS_URL: not
\* remote when it is not set; remote with the one raw value (the empty string
\* too) when it has no comma; otherwise remote with the parts between the
\* commas in order, without one void last part: "A,B," gives [A, B] and ","
\* gives [""].
C13_SimpleForm ==
    (rrPc = "returned" /\ ~envSc.ok) =>
        /\ rr.err = ""
        /\ Len(rr.r) = 1
        /\ IsSimpleForm(envWs, rr.r[1])
        /\ envWs = SetTo(<<"A", ",", "B", ",">>) => rr.r[1].wsURLs = << <<"A">>, <<"B">> >>
        /\ envWs = SetTo(<<",">>) => rr.r[1].wsURLs = << << >> >>
        /\ envWs = SetTo(<< >>) => rr.r[1].wsURLs = << << >> >>

C13_Witness ==
    /\ Returned
    /\ ~envSc.ok
    /\ envWs = SetTo(<<"A", ",", "B", ",">>)
    /\ rr.r[1] = [isRemote |-> TRUE, wsURLs |-> << <<"A">>, <<"B">> >>]
    /\ drawn.called
    /\ drawn.wsURL = <<"B">>

\* The handles of a JSON array of scenarios in document order (a browser
\* object without handle counts as the empty handle), and those of them that
\* are not blank.
RECURSIVE Flatten(_)
Flatten(ss) == IF Len(ss) = 0 THEN << >> ELSE Head(ss) \o Flatten(Tail(ss))

NotBlank(b) == b.has /\ \E i \in 1..Len(b.handle) : b.handle[i] # " "

DocHandles(text) ==
    [i \in 1..Len(SelectSeq(Flatten(text.scenarios), NotBlank)) |->
        SelectSeq(Flatten(text.scenarios), NotBlank)[i].handle]

\* The variable holds a well-formed document.
WellFormed(sc) == sc.ok /\ sc.val.quoted /\ sc.val.text.kind \in {"array", "null"}

\* ---- C14: when both variables are set and the scenarios document has at
\* least one handle that is not blank, the registry is remote and its list is
\* the document's non-blank handles in document order, and nothing else:
\* no part of K6_BROWSER_WS_URL is in it unless it is such a handle.
C14_ScenariosOverride ==
    (/\ rrPc = "returned"
     /\ envWs.ok
     /\ WellFormed(envSc)
     /\ DocHandles(envSc.val.text) # << >>) =>
        /\ rr.err = ""
        /\ Len(rr.r) = 1
        /\ rr.r[1].isRemote
        /\ rr.r[1].wsURLs = DocHandles(envSc.val.text)
        /\ \A u \in Range(checkForBrowserWSURLs(envWs).wsURLs) :
              u \in Range(rr.r[1].wsURLs) => u \in Range(DocHandles(envSc.val.text))

C14_Witness ==
    /\ Returned
    /\ envWs = SetTo(<<"A", ",", "A", "B">>)
    /\ WellFormed(envSc)
    /\ rr.r[1].wsURLs = << <<"B">>, <<"A">>, <<"C">>, <<"B">> >>
    /\ drawn.called
    /\ drawn.wsURL = <<"C">>

\* ---- C15: a well-formed scenarios document without a non-blank handle does
\* not make the registry remote: newRemoteRegistry returns the registry of
\* the simple form, not remote when K6_BROWSER_WS_URL is not set and that
\* variable's endpoints when it is.
C15_BlankDocumentFallsThrough ==
    (/\ rrPc = "returned"
     /\ WellFormed(envSc)
     /\ DocHandles(envSc.val.text) = << >>) =>
        /\ rr.err = ""
        /\ Len(rr.r) = 1
        /\ IsSimpleForm(envWs, rr.r[1])
        /\ ~envWs.ok => ~rr.r[1].isRemote

C15_Witness ==
    /\ Returned
    /\ envSc = SetTo(Quoted(JsonArray(<< <<Handle(<< >>)>>, <<Handle(<<" ">>), NoHandle>> >>)))
    /\ envWs = SetTo(<<"B", ",", "A">>)
    /\ rr.r[1] = [isRemote |-> TRUE, wsURLs |-> << <<"B">>, <<"A">> >>]

\* The variable holds a malformed document: a value that is not void and is
\* not a quoted string, or a quoted text that is not a JSON array or null
\* (the empty text, a JSON text cut short, a JSON value of another type).
Malformed(sc) ==
    /\ sc.ok
    /\ ~(~sc.val.quoted /\ sc.val.text.kind = "empty")
    /\ ~sc.val.quoted \/ sc.val.text.kind \notin {"array", "null"}

\* ---- C16: when K6_INSTANCE_SCENARIOS holds a malformed document,
\* newRemoteRegistry returns an error and nil, whatever K6_BROWSER_WS_URL
\* holds, and no isRemoteBrowser call follows.
C16_MalformedDocumentFails ==
    /\ [](Malformed(envSc) => ~ENABLED IsRemoteBrowser)
    /\ []((rrPc = "returned" /\ Malformed(envSc)) =>
            /\ rr.err # ""
            /\ rr.r = << >>
            /\ ~drawn.called)

C16_Witness ==
    /\ rrPc = "returned"
    /\ envSc = SetTo(Quoted(EmptyText))
    /\ envWs = SetTo(<<"A">>)
    /\ rr = [err |-> "parsing K6_INSTANCE_SCENARIOS", r |-> << >>]

\* ---- C17: every isRemoteBrowser call on a returned registry gives, when
\* the registry is remote, true and an endpoint of its list (which is never
\* empty), and otherwise false and the empty endpoint; and the call leaves
\* the registry as it is.
C17_DrawWithinSet ==
    /\ [](drawn.called =>
            /\ Len(rr.r) = 1
            /\ IF rr.r[1].isRemote
               THEN /\ drawn.ok
                    /\ \E i \in 1..Len(rr.r[1].wsURLs) : rr.r[1].wsURLs[i] = drawn.wsURL
               ELSE /\ ~drawn.ok
                    /\ drawn.wsURL = "")
    /\ [][rrPc = "returned" => (rr' = rr /\ envWs' = envWs /\ envSc' = envSc)]_vars

C17_Witness ==
    /\ drawn.called
    /\ drawn.ok
    /\ Len(rr.r[1].wsURLs) = 3
    /\ drawn.wsURL = rr.r[1].wsURLs[3]
    /\ drawn.wsURL # rr.r[1].wsURLs[1]
    /\ ~envSc.ok

\* =================================================================
\* claims about the construction of the traces registry (SpecTraceNew)
\* =================================================================

\* K6_BROWSER_ENABLE_TRACING is set to a value that reads as boolean true.
TracingRequested == tenv.enabled.ok /\ tenv.enabled.val \in {"1", "t", "T", "TRUE", "true", "True"}

\* ---- C18: when K6_BROWSER_ENABLE_TRACING is not set or does not read as
\* true, newTracesRegistry returns no error and a registry with the no-op
\* trace provider, the base context and an empty map, whatever the endpoint,
\* protocol and insecure variables hold.
C18_DisabledIsNoop ==
    (tnPc = "returned" /\ ~TracingRequested) =>
        /\ tnew.err = ""
        /\ Len(tnew.r) = 1
        /\ tnew.r[1].tp = "noop"
        /\ tnew.r[1].m = << >>
        /\ tnew.r[1].ctx = "base"

C18_Witness ==
    /\ tnPc = "returned"
    /\ tenv.enabled = SetTo("yes")
    /\ tenv.endpoint = Unset
    /\ tenv.proto = SetTo("grpc")
    /\ tenv.insecure = SetTo("maybe")
    /\ tnew.err = ""
    /\ tnew.r[1].tp = "noop"

\* The endpoint or the protocol is not set or empty, or the protocol is not
\* http.
TracingNotWirable ==
    \/ ~tenv.endpoint.ok
    \/ tenv.endpoint.val = ""
    \/ ~tenv.proto.ok
    \/ tenv.proto.val = ""
    \/ tenv.proto.val \notin {"http", "HTTP", "Http"}

\* ---- C19: when tracing is requested and the endpoint or the protocol is
\* not set or empty, or the protocol is not http, newTracesRegistry returns
\* an error and nil.
C19_EnabledNeedsEndpointAndProto ==
    (tnPc = "returned" /\ TracingRequested /\ TracingNotWirable) =>
        /\ tnew.err # ""
        /\ tnew.r = << >>

C19_Witness ==
    /\ tnPc = "returned"
    /\ tenv.enabled = SetTo("1")
    /\ tenv.endpoint = SetTo("localhost:4318")
    /\ tenv.proto = SetTo("grpc")
    /\ tnew = [err |-> "creating trace provider", r |-> << >>]

\* =================================================================
\* claims about the browser registry (SpecBrowser, FairSpecBrowser)
\* =================================================================

Built == 1..Len(browsers)

C2_ExitDrainsAndTerminates ==
    /\ [](exitPc \in {"ack", "done"} =>
            \A b \in atExit : browsers[b].closed = 1 /\ b \notin Registered(regM))
    /\ (exitEv = "received") ~> (exitPc = "done")

C2_Witness ==
    /\ exitPc = "done"
    /\ Cardinality(atExit) >= 2
    /\ \E b \in atExit : browsers[b].by = {"exit"}
    /\ \E b \in atExit : browsers[b].by = {"end"}

\* ---- C3: Done is called once on every consumed event, and only when its
\* handler is over: an iteration event is acknowledged exactly when the loop
\* is back at its receive after it, whatever the handler did, and the exit
\* event exactly when the exit loop is done.
C3_AckedOnceAfterHandling ==
    /\ \A e \in 1..MaxEvents :
          /\ acks[e] <= 1
          /\ acks[e] = 1 <=> (e < iterCur \/ (e = iterCur /\ iterPc = "recv"))
    /\ exitAcks <= 1
    /\ exitAcks = 1 <=> exitPc = "done"

C3_Witness ==
    /\ iterPc = "recv"
    /\ exitAcks = 1
    /\ \E e1, e2, e3 \in 1..iterCur :
          /\ e1 < e2
          /\ events[e1].type = "IterStart" /\ e1 \in aborted
          /\ events[e2] = [type |-> "IterEnd", iter |-> events[e1].iter]
          /\ events[e3].type = "malformed" /\ e3 \in aborted
          /\ acks[e1] = 1 /\ acks[e2] = 1 /\ acks[e3] = 1

\* ---- C4: when the builder returns an error to the start handler of
\* identity k, the step stores nothing (the map is as it was, and holds no
\* entry for k), reports the abort, and ends the handler: the build is not
\* tried again.
BuildFailed == iterPc = "building" /\ iterPc' # "building" /\ iterB' = 0

C4_BuildErrorStoresNothing ==
    /\ [][BuildFailed =>
            /\ regM' = regM
            /\ events[iterCur].iter \notin DOMAIN regM'
            /\ browsers' = browsers
            /\ ids' = ids
            /\ aborted' = aborted \cup {iterCur}
            /\ iterPc' = "ack"
            /\ iterCur' = iterCur]_vars
    /\ []((iterPc = "ack" /\ events[iterCur].type = "IterStart" /\ iterCur \in aborted) =>
            events[iterCur].iter \notin DOMAIN regM)

C4_Witness ==
    /\ iterPc = "ack"
    /\ events[iterCur].type = "IterStart"
    /\ iterCur \in aborted
    /\ DOMAIN regM # {}
    /\ events[iterCur].iter \notin DOMAIN regM

\* ---- C5: the end handler of an identity with no registered browser closes
\* nothing, leaves the map as it is and reports no abort.
EndWithoutBrowser ==
    /\ iterPc = "handle"
    /\ events[iterCur].type = "IterEnd"
    /\ events[iterCur].iter \notin DOMAIN regM
    /\ iterPc' = "ack"

C5_EndWithoutHandleIsNoOp ==
    [][EndWithoutBrowser =>
            /\ regM' = regM
            /\ browsers' = browsers
            /\ aborted' = aborted]_vars

C5_Witness ==
    /\ iterPc = "ack"
    /\ events[iterCur].type = "IterEnd"
    /\ \E e \in 1..iterCur :
          /\ events[e] = [type |-> "IterStart", iter |-> events[iterCur].iter]
          /\ e \in aborted
    /\ \A b \in Built : browsers[b].iter # events[iterCur].iter
    /\ DOMAIN regM # {}

\* ---- C6: a pid is appended to the pid registry only by a build that
\* launched locally, as the pid of the launched process; in remote mode every
\* build connects to an endpoint of the list and Pids() stays empty.
C6_PidOnlyAfterLocalLaunch ==
    /\ [][ids' # ids =>
            /\ iterPc = "building"
            /\ iterPc' = "built"
            /\ ~remote.isRemote
            /\ ~iterWs.ok
            /\ ids' = Append(ids, browsers'[iterB'].pid)]_vars
    /\ [](remote.isRemote =>
            /\ copyPids(ids) = << >>
            /\ \A b \in Built :
                  browsers[b].wsURL \in Range(remote.wsURLs) /\ browsers[b].pid = 0)
    /\ [](~remote.isRemote =>
            /\ Len(copyPids(ids)) = Len(browsers)
            /\ \A b \in Built : browsers[b].wsURL = "" /\ copyPids(ids)[b] = browsers[b].pid)

C6_Witness ==
    /\ remote.isRemote
    /\ copyPids(ids) = << >>
    /\ \E b, c \in Built :
          /\ browsers[b].wsURL # browsers[c].wsURL
          /\ browsers[b].stored
          /\ browsers[c].stored

\* The producer kept to the order in the events evs: no start of an identity
\* whose last event before it was a start.
StartsFollowEnds(evs) ==
    \A i \in 1..Len(evs) :
        evs[i].type = "IterStart" => LastFor(SubSeq(evs, 1, i - 1), evs[i].iter) # "IterStart"

\* The step stores the built browser under an identity that is mapped.
StoresOverMapped ==
    /\ iterPc = "built"
    /\ iterPc' = "ack"
    /\ events[iterCur].iter \in DOMAIN regM

\* ---- C20: the registry holds at most one browser per identity, and a
\* browser only under its own identity; a store under an identity that is
\* mapped puts the new browser in place of the old one and calls Close on no
\* browser; and as long as the producer sent no start for an identity whose
\* last event was a start, no store finds its identity mapped.
C20_OnePerIdentity ==
    /\ [](\A id \in IterIds :
            /\ Cardinality({b \in Registered(regM) : browsers[b].iter = id}) <= 1
            /\ id \in DOMAIN regM => browsers[regM[id]].iter = id)
    /\ [][(iterPc = "built" /\ iterPc' = "ack") =>
            /\ DOMAIN regM' = DOMAIN regM \cup {events[iterCur].iter}
            /\ regM'[events[iterCur].iter] = iterB
            /\ \A id \in DOMAIN regM : id # events[iterCur].iter => regM'[id] = regM[id]
            /\ \A b \in Built : browsers'[b].closed = browsers[b].closed]_vars
    /\ [][StoresOverMapped => ~StartsFollowEnds(SubSeq(events, 1, iterCur))]_vars

C20_Witness ==
    /\ iterPc = "recv"
    /\ \E id \in DOMAIN regM : \E b \in Built :
          /\ browsers[b].iter = id
          /\ browsers[b].stored
          /\ browsers[b].closed = 0
          /\ regM[id] # b
          /\ browsers[regM[id]].closed = 0

\* =================================================================
\* claims about the trace registry (SpecTrace)
\* =================================================================

\* The spans started for id that End was never called on.
LiveFor(id) == {s \in 1..Len(spans) : spans[s].iter = id /\ spans[s].ended = 0}

IsLive(s) == s \in 1..Len(spans) /\ spans[s].ended = 0

\* ---- C7: for traceCtx calls with the same id and no endTrace of that id
\* between them, in any interleaving, one span is started and stored (the id
\* has at most one span not yet ended, and it is the stored one), and all the
\* calls return the same context.
C7_OneSpanOneContext ==
    /\ \A id \in IterIds :
          /\ Cardinality(LiveFor(id)) <= 1
          /\ id \in DOMAIN traceM => LiveFor(id) = {traceM[id].rootSpan}
          /\ id \notin DOMAIN traceM => LiveFor(id) = {}
    /\ \A g, h \in Tracers :
          (/\ tRes[g].op = "traceCtx"
           /\ tRes[h].op = "traceCtx"
           /\ tRes[g].id = tRes[h].id
           /\ IsLive(tRes[g].ctx.span)
           /\ IsLive(tRes[h].ctx.span)) => tRes[g].ctx = tRes[h].ctx

C7_Witness ==
    \E g, h \in Tracers :
        /\ g # h
        /\ tRes[g].op = "traceCtx"
        /\ tRes[h].op = "traceCtx"
        /\ tRes[g].id = tRes[h].id
        /\ tRes[g].ctx = tRes[h].ctx
        /\ IsLive(tRes[g].ctx.span)
        /\ tPc[g] = "idle"
        /\ tPc[h] = "idle"
        /\ Len(spans) = 1

\* ---- C8: End is called on a span at most once, and only by the endTrace
\* step that removes the span's entry from the map; every entry removed has
\* End called on its span in that step.
C8_EndedOnceOnRemoval ==
    [][/\ \A s \in 1..Len(spans) :
            spans'[s].ended # spans[s].ended =>
                /\ spans[s].ended = 0
                /\ spans'[s].ended = 1
                /\ \E g \in Tracers : tPc[g] = "end" /\ tOp[g] = "endTrace"
                /\ \E id \in DOMAIN traceM :
                      traceM[id].rootSpan = s /\ id \notin DOMAIN traceM'
       /\ \A id \in DOMAIN traceM :
            id \notin DOMAIN traceM' =>
                spans'[traceM[id].rootSpan].ended = spans[traceM[id].rootSpan].ended + 1
      ]_vars

C8_Witness ==
    \E s \in 1..Len(spans) :
        /\ spans[s].ended = 1
        /\ spans[s].iter \notin DOMAIN traceM
        /\ lastOp = [op |-> "endTrace", id |-> spans[s].iter]

\* ---- C9: an endTrace(id) that runs directly after another endTrace(id)
\* finds no entry, leaves the map and every span as they are, and ends nothing.
C9_EndTraceIdempotent ==
    [][\A g \in Tracers :
          (/\ tOp[g] = "endTrace"
           /\ tPc[g] \in {"locked", "end"}
           /\ lastOp = [op |-> "endTrace", id |-> tId[g]]) =>
                /\ traceM' = traceM
                /\ spans' = spans
                /\ tPc'[g] # "end"
      ]_vars

C9_Witness ==
    \E g \in Tracers :
        /\ tOp[g] = "endTrace"
        /\ tPc[g] = "unlock"
        /\ lastOp = [op |-> "endTrace", id |-> tId[g]]
        /\ \E s \in 1..Len(spans) : spans[s].iter = tId[g] /\ spans[s].ended = 1
        /\ LiveFor(tId[g]) = {}

\* ---- C21: the registry newTracesRegistry returned, with tracing disabled or
\* enabled, holds the base context it was given, and every span traceCtx
\* started has that base context as its parent.
C21_BaseContextKept ==
    /\ tr.ctx = "base"
    /\ \A s \in 1..Len(spans) : spans[s].parent = "base"

\* The handler of iteration event e has finished.
Handled(e) == acks[e] = 1

\* ---- C22: once the exit drain and the start handler are both over, no
\* browser stored by a start handler that ran while the drain ran is still
\* registered without Close having been called on it.
C22_NoLeakPastClear ==
    exitPc \in {"ack", "done"} =>
        \A b \in Built :
            (browsers[b].ev \in overlapped /\ Handled(browsers[b].ev)) =>
                ~(b \in Registered(regM) /\ browsers[b].closed = 0)

\* ---- C23: the iteration loop takes its events one by one in delivery
\* order: it moves to the next event only from its receive, after Done on the
\* current one, and while a handler runs (a build that does not return
\* included) no later event has been touched; the exit loop does not wait for
\* it: an emitted exit event can be received at once, and is handled to the
\* end whatever the iteration loop does.
C23_OneAtATimeExitNotDelayed ==
    /\ [][iterCur' # iterCur =>
            /\ iterCur' = iterCur + 1
            /\ iterPc = "recv"
            /\ iterCur > 0 => acks[iterCur] = 1]_vars
    /\ [](\A e \in 1..MaxEvents :
            e > iterCur =>
                /\ acks[e] = 0
                /\ e \notin aborted
                /\ \A b \in Built : browsers[b].ev # e)
    /\ []((exitEv = "emitted" /\ exitPc = "wait") => ENABLED ExitRecv)
    /\ (exitEv = "emitted") ~> (exitPc = "done")

C23_Witness ==
    /\ iterPc = "building"
    /\ iterCur = 1
    /\ Len(events) = MaxEvents
    /\ exitPc = "done"
    /\ exitAcks = 1
    /\ regM = << >>

\* ---- C24: when K6_INSTANCE_SCENARIOS is set and its raw value is the void
\* string, newRemoteRegistry does not fail, and what it returns is the
\* registry of the simple form for the value of K6_BROWSER_WS_URL: the same
\* as with K6_INSTANCE_SCENARIOS not set.
C24_VoidScenariosIsSimpleForm ==
    (rrPc = "returned" /\ envSc.ok /\ envSc.val = Bare(EmptyText)) =>
        /\ rr.err = ""
        /\ Len(rr.r) = 1
        /\ IsSimpleForm(envWs, rr.r[1])
        /\ rr = newRemoteRegistry(AbsentScenarios, envWs)

C24_Witness ==
    /\ Returned
    /\ envSc = SetTo(Bare(EmptyText))
    /\ envWs = SetTo(<<"A", ",", "B">>)
    /\ rr.r[1] = [isRemote |-> TRUE, wsURLs |-> << <<"A">>, <<"B">> >>]
    /\ drawn.called
    /\ drawn.wsURL = <<"A">>

\* ---- C25: whenever newRemoteRegistry succeeds, a remote registry has at
\* least one endpoint (it may be the one empty string), so the indexes the
\* draw of isRemoteBrowser can give are never none and all lie within the
\* list, and the call can be made.
C25_RemoteHasEndpoints ==
    (rrPc = "returned" /\ rr.err = "") =>
        /\ Len(rr.r) = 1
        /\ rr.r[1].isRemote =>
              /\ Len(rr.r[1].wsURLs) >= 1
              /\ drawRange(rr.r[1]) # {}
              /\ drawRange(rr.r[1]) \subseteq DOMAIN rr.r[1].wsURLs
        /\ ENABLED IsRemoteBrowser

C25_Witness ==
    /\ Returned
    /\ ~envSc.ok
    /\ envWs = SetTo(<<",">>)
    /\ rr.r[1] = [isRemote |-> TRUE, wsURLs |-> << << >> >>]
    /\ drawn.called
    /\ drawn.ok
    /\ drawn.wsURL = << >>

\* The spans End was never called on.
LiveSpans == {s \in 1..Len(spans) : spans[s].ended = 0}

\* ---- C26: in every state the entries of the trace map are exactly the spans
\* started and not yet ended: each entry holds a live span of its id together
\* with that span's context, no two entries hold the same span, and every
\* live span is held by an entry; and a traceCtx(id) that finds no entry (the
\* id never traced, or its entry removed by an endTrace(id) before) starts a
\* span that did not exist, stores it as the id's entry and returns its
\* context.
C26_EntriesAreLiveSpans ==
    /\ [](/\ \A id \in DOMAIN traceM :
               /\ traceM[id].rootSpan \in LiveSpans
               /\ spans[traceM[id].rootSpan].iter = id
               /\ traceM[id].ctx.span = traceM[id].rootSpan
          /\ \A id, jd \in DOMAIN traceM :
               traceM[id].rootSpan = traceM[jd].rootSpan => id = jd
          /\ LiveSpans = {traceM[id].rootSpan : id \in DOMAIN traceM})
    /\ [][\A g \in Tracers :
            /\ (tOp[g] = "traceCtx" /\ tPc[g] = "locked" /\ tId[g] \notin DOMAIN traceM) =>
                  tPc'[g] = "start"
            /\ tPc[g] = "start" =>
                  /\ Len(spans') = Len(spans) + 1
                  /\ \A s \in 1..Len(spans) : spans'[s] = spans[s]
                  /\ spans'[Len(spans')].iter = tId[g]
                  /\ spans'[Len(spans')].ended = 0
                  /\ tId[g] \in DOMAIN traceM'
                  /\ traceM'[tId[g]].rootSpan = Len(spans')
                  /\ tRes'[g] = [op |-> "traceCtx", id |-> tId[g], ctx |-> traceM'[tId[g]].ctx]
         ]_vars

C26_Witness ==
    \E g \in Tracers, id \in IterIds :
        /\ Len(spans) = 2
        /\ spans[1].iter = id
        /\ spans[1].ended = 1
        /\ spans[2].iter = id
        /\ spans[2].ended = 0
        /\ id \in DOMAIN traceM
        /\ traceM[id].rootSpan = 2
        /\ tRes[g] = [op |-> "traceCtx", id |-> id, ctx |-> traceM[id].ctx]
        /\ lastOp = [op |-> "traceCtx", id |-> id]

\* The entries of id in the two maps, the span of its trace entry and its
\* browser are after the step what they were before it.
SameEntries(id) ==
    /\ (id \in DOMAIN traceM') = (id \in DOMAIN traceM)
    /\ id \in DOMAIN traceM =>
          /\ traceM'[id] = traceM[id]
          /\ spans'[traceM[id].rootSpan] = spans[traceM[id].rootSpan]
    /\ (id \in DOMAIN regM') = (id \in DOMAIN regM)
    /\ id \in DOMAIN regM =>
          /\ regM'[id] = regM[id]
          /\ browsers'[regM[id]].closed = browsers[regM[id]].closed
          /\ browsers'[regM[id]].by = browsers[regM[id]].by

\* A step of a call on id: of setBrowser or deleteBrowser, or of a goroutine
\* inside traceCtx(id) or endTrace(id).
CallOn(id) ==
    \/ \E b \in IterIds : SetBrowserCall(id, b)
    \/ DeleteBrowserCall(id)
    \/ \E g \in Tracers :
          /\ tId[g] = id
          /\ \/ traceCtxLookup(g)
             \/ traceCtxStart(g)
             \/ endTraceLookup(g)
             \/ endTraceEnd(g)
             \/ traceUnlock(g)

\* ---- C27: every step of setBrowser(id), deleteBrowser(id), traceCtx(id) or
\* endTrace(id) leaves the entries of every other id as they were: the same
\* browser, not closed by the step, and the same context and span, not ended
\* by the step; this in every interleaving of the calls, calls on other ids
\* included.
C27_OtherIdsUntouched ==
    [][\A id \in IterIds :
          CallOn(id) => \A k \in IterIds \ {id} : SameEntries(k)]_vars

C27_Witness ==
    \E g, h \in Tracers :
        /\ g # h
        /\ tOp[g] = "endTrace"
        /\ tPc[g] = "unlock"
        /\ tId[g] = 1
        /\ 1 \notin DOMAIN traceM
        /\ Len(spans) = 2
        /\ spans[1] = [parent |-> tr.ctx, iter |-> 1, ended |-> 1]
        /\ 2 \in DOMAIN traceM
        /\ traceM[2].rootSpan = 2
        /\ spans[2].ended = 0
        /\ tRes[h] = [op |-> "traceCtx", id |-> 2, ctx |-> traceM[2].ctx]

====
